---- MODULE Spec2Model ----
(***************************************************************************)
(* Model of the Compute Engine instance scripts                            *)
(*   src/Instance/vm_instance_operation.py  (create/start/stop/delete)     *)
(*   src/Instance/start.py                  (start only)                   *)
(* and of wait_for_extended_operation, which both files define with the    *)
(* same body.                                                              *)
(*                                                                         *)
(* One Python process runs a sequence of command calls, one at a time.     *)
(* stdout, stderr and pywarnings hold what the CURRENT call has written;   *)
(* requests and heap live for the whole process.  Strings that the code    *)
(* inspects character by character (zone, machine_type) are sequences of   *)
(* one-character strings; all other strings are opaque.                    *)
(***************************************************************************)
EXTENDS Integers, Sequences, FiniteSets, TLC

VARIABLES
    pc,          \* position of the process inside the current call
    call,        \* the current call: file, command, bound parameters
    callNo,      \* number of calls entered so far
    op,          \* the ExtendedOperation handle of the current call
    result,      \* wait_for_extended_operation's local `result`
    reads,       \* handle attributes the waiter has read in this call
    stdout,      \* lines printed to sys.stdout by the current call
    stderr,      \* lines printed to sys.stderr by the current call
    pywarnings,  \* warnings.warn calls of the current call
    waiter,      \* how wait_for_extended_operation ended in this call
    cmdResult,   \* how the command ended
    requests,    \* every request the service received, in order
    gets,        \* every instance_client.get the service received
    heap         \* list objects: id -> sequence of AttachedDisk

vars == << pc, call, callNo, op, result, reads, stdout, stderr, pywarnings,
           waiter, cmdResult, requests, gets, heap >>

----------------------------------------------------------------------------
(* Bounds *)

MaxCalls == 2
MaxWarnings == 2
MaxPieces == 5

----------------------------------------------------------------------------
(* Character strings *)

S_zones == << "z", "o", "n", "e", "s", "/" >>
S_machineTypes ==
    << "/", "m", "a", "c", "h", "i", "n", "e", "T", "y", "p", "e", "s", "/" >>
S_n1_standard_1 ==
    << "n", "1", "-", "s", "t", "a", "n", "d", "a", "r", "d", "-", "1" >>
S_us_central1_c ==
    << "u", "s", "-", "c", "e", "n", "t", "r", "a", "l", "1", "-", "c" >>

\* "LF" stands for the line feed character, "u0663" for ARABIC-INDIC DIGIT
\* THREE (a decimal digit outside ASCII).
LowerAZ ==
    { "a", "b", "c", "d", "e", "f", "g", "h", "i", "j", "k", "l", "m",
      "n", "o", "p", "q", "r", "s", "t", "u", "v", "w", "x", "y", "z" }
AsciiDigits == { "0", "1", "2", "3", "4", "5", "6", "7", "8", "9" }
UnicodeDigits == AsciiDigits \cup { "u0663" }

\* The character class [a-z\d\-] of a str pattern: \d is any decimal digit.
InClass(c) == c \in LowerAZ \/ c \in UnicodeDigits \/ c = "-"

\* Positions just after `lit` when `lit` occurs in s at a position of P.
AfterLiteral(s, P, lit) ==
    { p + Len(lit) : p \in
        { q \in P : /\ q + Len(lit) - 1 <= Len(s)
                    /\ \A k \in 1..Len(lit) : s[q + k - 1] = lit[k] } }

\* Positions reachable from a position of P over one or more class chars.
AfterClassPlus(s, P) ==
    { q \in 2..(Len(s) + 1) :
        \E p \in P : p < q /\ \A k \in p..(q - 1) : InClass(s[k]) }

\* Faulty variant: the pattern without its closing `$`.
AtDollarUnanchored(s, p) == TRUE

\* `$` without re.MULTILINE: the end of the string, or just before a line
\* feed that is the last character.
AtDollar(s, p) ==
    \/ p = Len(s) + 1
    \/ p = Len(s) /\ s[p] = "LF"

\* re.match anchors the attempt at the first character.
MatchStarts(s) == { 1 }

\* re.match(r"^zones/[a-z\d\-]+/machineTypes/[a-z\d\-]+$", s) is not None
ReMatchMachineType(s) ==
    LET p1 == AfterLiteral(s, MatchStarts(s), S_zones)
        p2 == AfterClassPlus(s, p1)
        p3 == AfterLiteral(s, p2, S_machineTypes)
        p4 == AfterClassPlus(s, p3)
    IN  \E p \in p4 : AtDollar(s, p)

\* f"zones/{zone}/machineTypes/{machine_type}"
SynthMachineType(zone, machine_type) ==
    S_zones \o zone \o S_machineTypes \o machine_type

\* lines 115-118
NormalizeMachineType(zone, machine_type) ==
    IF ReMatchMachineType(machine_type)
    THEN machine_type
    ELSE SynthMachineType(zone, machine_type)

----------------------------------------------------------------------------
(* Request construction: disk_from_image and the body of create_instance *)

\* lines 19-37
disk_from_image(disk_type, disk_size_gb, boot, source_image, auto_delete) ==
    [ initialize_params |-> [ source_image |-> source_image,
                              disk_size_gb |-> disk_size_gb,
                              disk_type    |-> disk_type ],
      auto_delete |-> auto_delete,
      boot        |-> boot ]

\* The list literal of lines 68-75, evaluated once, when `def` is executed.
DefaultDisksValue ==
    << disk_from_image("zones/us-central1-c/diskTypes/pd-balanced", 10, TRUE,
         "projects/debian-cloud/global/images/debian-11-bullseye-v20230615",
         TRUE) >>

\* The heap address of that list object.
DefaultDisksId == 0

\* The argument bound to `disks`: the one default object when the caller
\* omits it, otherwise the list object the caller built for this call.
DisksArgument(args, freshId) ==
    IF args.disks = "omitted" THEN DefaultDisksId ELSE freshId

\* Python truthiness of an optional str argument.
Truthy(x) == x # "None" /\ x # ""

\* lines 101-108
AccessConfigs(args) ==
    IF args.external_access
    THEN << [ type_        |-> "ONE_TO_ONE_NAT",
              name         |-> "External NAT",
              network_tier |-> "PREMIUM",
              nat_i_p      |-> IF Truthy(args.external_ipv4)
                               THEN args.external_ipv4 ELSE "" ] >>
    ELSE << >>

\* lines 93-108
NetworkInterface(args) ==
    [ network        |-> args.network_link,
      subnetwork     |-> IF Truthy(args.subnetwork_link)
                         THEN args.subnetwork_link ELSE "",
      network_i_p    |-> IF Truthy(args.internal_ip)
                         THEN args.internal_ip ELSE "",
      access_configs |-> AccessConfigs(args) ]

\* compute_v1.Scheduling(): every field at its default.
NewScheduling ==
    [ assigned |-> TRUE, preemptible |-> FALSE,
      provisioning_model |-> "", instance_termination_action |-> "" ]

\* instance.scheduling before anything is assigned to it.
UnsetScheduling == [ NewScheduling EXCEPT !.assigned = FALSE ]

\* Faulty variant: the spot branch updates the scheduling object the
\* preemptible branch made instead of replacing it.
SchedulingMerged(preemptible, spot, instance_termination_action) ==
    LET s1 == IF preemptible
              THEN [ NewScheduling EXCEPT !.preemptible = TRUE ]
              ELSE UnsetScheduling
    IN  IF spot
        THEN [ s1 EXCEPT
                 !.assigned = TRUE,
                 !.provisioning_model = "SPOT",
                 !.instance_termination_action = instance_termination_action ]
        ELSE s1

\* lines 123-137: each `if` assigns a new Scheduling object.
Scheduling(preemptible, spot, instance_termination_action) ==
    LET s1 == IF preemptible
              THEN [ NewScheduling EXCEPT !.preemptible = TRUE ]
              ELSE UnsetScheduling
    IN  IF spot
        THEN [ NewScheduling EXCEPT
                 !.provisioning_model = "SPOT",
                 !.instance_termination_action = instance_termination_action ]
        ELSE s1

\* lines 123-127: the warnings.warn calls of one create_instance call.
DeprecationWarnings(preemptible, spot) ==
    IF preemptible
    THEN << [ category |-> "DeprecationWarning",
              message  |-> "Preemptible VMs are being replaced by Spot VMs." ] >>
    ELSE << >>

\* lines 111-145
BuildInstance(zone, instance_name, args, disksId) ==
    [ network_interfaces  |-> << NetworkInterface(args) >>,
      name                |-> instance_name,
      disks               |-> disksId,
      machine_type        |-> NormalizeMachineType(zone, args.machine_type),
      guest_accelerators  |-> args.accelerators,
      scheduling          |-> Scheduling(args.preemptible, args.spot,
                                         args.instance_termination_action),
      hostname            |-> IF args.custom_hostname # "None"
                              THEN args.custom_hostname ELSE "",
      deletion_protection |-> args.delete_protection ]

\* The keyword defaults of lines 76-87.
DefaultArgs ==
    [ disks |-> "omitted",
      machine_type |-> S_n1_standard_1,
      network_link |-> "global/networks/default",
      subnetwork_link |-> "None",
      internal_ip |-> "None",
      external_access |-> FALSE,
      external_ipv4 |-> "None",
      accelerators |-> << >>,
      preemptible |-> FALSE,
      spot |-> FALSE,
      instance_termination_action |-> "STOP",
      custom_hostname |-> "None",
      delete_protection |-> FALSE ]

----------------------------------------------------------------------------
(* Output lines *)

\* Faulty variant: only the first warning is printed.
WarningLinesFirstOnly(verbose_name, o) ==
    IF o.warnings # << >>
    THEN << [ kind |-> "warnings_header", label |-> verbose_name ],
            [ kind |-> "warning", wcode |-> o.warnings[1].code,
              message |-> o.warnings[1].message ] >>
    ELSE << >>

\* lines 56-59: a header, then one line per warning, in list order.
WarningLines(verbose_name, o) ==
    IF o.warnings # << >>
    THEN << [ kind |-> "warnings_header", label |-> verbose_name ] >>
         \o [ i \in 1..Len(o.warnings) |->
                [ kind |-> "warning", wcode |-> o.warnings[i].code,
                  message |-> o.warnings[i].message ] ]
    ELSE << >>

\* Faulty variant: the error branch prints the warnings too before raising.
ErrorLinesThenWarnings(verbose_name, o) ==
    << [ kind |-> "error", label |-> verbose_name,
         code |-> o.error_code, message |-> o.error_message ],
       [ kind |-> "operation_id", id |-> o.name ] >>
    \o WarningLines(verbose_name, o)

\* lines 48-53: the two print calls of the error branch.
ErrorLines(verbose_name, o) ==
    << [ kind |-> "error", label |-> verbose_name,
         code |-> o.error_code, message |-> o.error_message ],
       [ kind |-> "operation_id", id |-> o.name ] >>

\* Faulty variant: an error code counts only when there is no result payload.
HasErrorWithoutPayload(o) == o.error_code # 0 /\ o.result = "None"

\* line 47: `if operation.error_code:`
HasError(o) == o.error_code # 0

NoException == [ type |-> "None", message |-> "" ]

\* Faulty variant: the handle's own exception is dropped.
RaisedExceptionGeneric(o) ==
    [ type |-> "RuntimeError", message |-> o.error_message ]

\* line 54: `operation.exception() or RuntimeError(operation.error_message)`
RaisedException(o) ==
    IF o.exception # NoException
    THEN o.exception
    ELSE [ type |-> "RuntimeError", message |-> o.error_message ]

\* The label each command passes to the waiter (lines 158, 173, 185, 199;
\* start.py line 42).
VerboseName(c) ==
    CASE c.cmd = "create" -> "instance creation"
      [] c.cmd = "start"  -> "instance start"
      [] c.cmd = "stop"   -> "instance stopping"
      [] c.cmd = "delete" -> "instance deletion"

\* What a command prints before it submits (lines 154, 195).
AnnounceLines(c) ==
    CASE c.cmd = "create" ->
           << [ kind |-> "creating", name |-> c.instance_name ] >>
      [] c.cmd = "delete" ->
           << [ kind |-> "deleting", name |-> c.instance_name ] >>
      [] OTHER -> << >>

\* What a command prints after the waiter returned (lines 160, 174, 186,
\* 200); start.py's start_instance ends at the wait (line 42).
ConfirmLines(c) ==
    IF c.file = "start.py"
    THEN << >>
    ELSE CASE c.cmd = "create" ->
                << [ kind |-> "created", name |-> c.instance_name ] >>
           [] c.cmd = "start" ->
                << [ kind |-> "started", name |-> c.instance_name ] >>
           [] c.cmd = "stop" ->
                << [ kind |-> "stopped", name |-> c.instance_name ] >>
           [] c.cmd = "delete" ->
                << [ kind |-> "deleted", name |-> c.instance_name ] >>

----------------------------------------------------------------------------
(* Inputs *)

Files == { "vm_instance_operation.py", "start.py" }

\* The commands each file defines.
Commands(file) ==
    IF file = "start.py"
    THEN { "start" }
    ELSE { "create", "start", "stop", "delete" }

ProjectIds == { "sanguine-line-391106" }
InstanceNames == { "my-instance" }
Zones == { S_us_central1_c }

\* The create_instance keyword arguments a caller varies.
CreateArgs ==
    { [ DefaultArgs EXCEPT !.disks = d, !.preemptible = p, !.spot = s ] :
        d \in { "omitted", "given" }, p \in BOOLEAN, s \in BOOLEAN }

ArgsOf(cmd) == IF cmd = "create" THEN CreateArgs ELSE { DefaultArgs }

\* A list the caller builds for one call when it passes `disks`.
CallerDisks ==
    << disk_from_image("pd-balanced", 10, TRUE, "debian-11", TRUE) >>

Warnings ==
    { [ code |-> "DEPRECATED_RESOURCE_USED", message |-> "deprecated" ],
      [ code |-> "DISK_SIZE_LARGER_THAN_IMAGE_SIZE", message |-> "larger" ] }

WarningLists == UNION { [ 1..n -> Warnings ] : n \in 0..MaxWarnings }

Payloads == { "None", "payload" }
ErrorCodes == { 404 }
ErrorMessages == { "", "quota exceeded" }
ServiceExceptions ==
    { NoException, [ type |-> "GoogleAPICallError", message |-> "not found" ] }

NoOperation ==
    [ status |-> "none", name |-> 0, error_code |-> 0, error_message |-> "",
      exception |-> NoException, warnings |-> << >>, result |-> "None" ]

\* The handle the service returns for a submitted request.
RunningOperation(id) ==
    [ NoOperation EXCEPT !.status = "running", !.name = id ]

\* The terminal states a handle can reach.
TerminalOperations(id) ==
    { [ status |-> "done", name |-> id, error_code |-> 0,
        error_message |-> "", exception |-> NoException,
        warnings |-> w, result |-> r ] :
        w \in WarningLists, r \in Payloads }
    \cup
    { [ status |-> "done", name |-> id, error_code |-> c,
        error_message |-> m, exception |-> e,
        warnings |-> w, result |-> r ] :
        c \in ErrorCodes, m \in ErrorMessages, e \in ServiceExceptions,
        w \in WarningLists, r \in Payloads }

NoCall ==
    [ file |-> "", cmd |-> "", project_id |-> "", zone |-> << >>,
      instance_name |-> "", args |-> DefaultArgs ]

NoOutcome == [ status |-> "none", exception |-> NoException, value |-> "None" ]

TimeoutError == [ type |-> "TimeoutError", message |-> "" ]

Raised(e) == [ status |-> "raised", exception |-> e, value |-> "None" ]
Returned(v) == [ status |-> "returned", exception |-> NoException, value |-> v ]

\* One attribute read of the handle, with the handle's state at the read.
Read(attr) == [ attr |-> attr, terminal |-> (op.status = "done") ]

----------------------------------------------------------------------------
(* The process *)

Init ==
    /\ pc = "idle"
    /\ call = NoCall
    /\ callNo = 0
    /\ op = NoOperation
    /\ result = "None"
    /\ reads = {}
    /\ stdout = << >>
    /\ stderr = << >>
    /\ pywarnings = << >>
    /\ waiter = NoOutcome
    /\ cmdResult = NoOutcome
    /\ requests = << >>
    /\ gets = << >>
    /\ heap = (DefaultDisksId :> DefaultDisksValue)

\* A command function is called: its parameters are bound.  A caller that
\* passes `disks` has built that list for this call.
Invoke ==
    /\ pc = "idle"
    /\ callNo < MaxCalls
    /\ \E file \in Files : \E cmd \in Commands(file) :
       \E project_id \in ProjectIds, zone \in Zones,
          instance_name \in InstanceNames, args \in ArgsOf(cmd) :
         /\ call' = [ file |-> file, cmd |-> cmd, project_id |-> project_id,
                      zone |-> zone, instance_name |-> instance_name,
                      args |-> args ]
         /\ heap' = IF args.disks = "given"
                    THEN heap @@ ((callNo + 1) :> CallerDisks)
                    ELSE heap
    /\ callNo' = callNo + 1
    /\ pc' = "entered"
    /\ op' = NoOperation
    /\ result' = "None"
    /\ reads' = {}
    /\ stdout' = << >>
    /\ stderr' = << >>
    /\ pywarnings' = << >>
    /\ waiter' = NoOutcome
    /\ cmdResult' = NoOutcome
    /\ UNCHANGED << requests, gets >>

\* create_instance, lines 90-156: build the instance, announce, insert.
SubmitCreate ==
    /\ pc = "entered"
    /\ call.cmd = "create"
    /\ LET disksId == DisksArgument(call.args, callNo)
           instance == BuildInstance(call.zone, call.instance_name,
                                     call.args, disksId)
       IN  requests' = Append(requests,
               [ call |-> callNo, kind |-> "insert",
                 project |-> call.project_id, zone |-> call.zone,
                 instance |-> call.instance_name,
                 instance_resource |-> << instance >> ])
    /\ pywarnings' = pywarnings
                     \o DeprecationWarnings(call.args.preemptible,
                                            call.args.spot)
    /\ stdout' = stdout \o AnnounceLines(call)
    /\ op' = RunningOperation(callNo)
    /\ pc' = "wait"
    /\ UNCHANGED << call, callNo, result, reads, stderr, waiter, cmdResult,
                    gets, heap >>

\* start_instance, stop_instance, delete_instance up to the client call
\* (lines 167-171, 180-184, 193-198; start.py lines 36-40).
SubmitSimple ==
    /\ pc = "entered"
    /\ call.cmd \in { "start", "stop", "delete" }
    /\ requests' = Append(requests,
           [ call |-> callNo, kind |-> call.cmd,
             project |-> call.project_id, zone |-> call.zone,
             instance |-> call.instance_name,
             instance_resource |-> << >> ])
    /\ stdout' = stdout \o AnnounceLines(call)
    /\ op' = RunningOperation(callNo)
    /\ pc' = "wait"
    /\ UNCHANGED << call, callNo, result, reads, stderr, pywarnings, waiter,
                    cmdResult, gets, heap >>

\* The service finishes the operation while the waiter blocks on it.
ServiceComplete ==
    /\ pc = "wait"
    /\ op.status = "running"
    /\ op' \in TerminalOperations(op.name)
    /\ UNCHANGED << pc, call, callNo, result, reads, stdout, stderr,
                    pywarnings, waiter, cmdResult, requests, gets, heap >>

\* line 45: operation.result(timeout=timeout) returns: the handle is done.
WaitReturn ==
    /\ pc = "wait"
    /\ op.status = "done"
    /\ result' = op.result
    /\ pc' = "check_error"
    /\ UNCHANGED << call, callNo, op, reads, stdout, stderr, pywarnings,
                    waiter, cmdResult, requests, gets, heap >>

\* Faulty variant: the timeout is swallowed and the waiter goes on to inspect
\* the handle.
WaitTimeoutSwallowed ==
    /\ pc = "wait"
    /\ op.status = "running"
    /\ pc' = "check_error"
    /\ UNCHANGED << call, callNo, op, result, reads, stdout, stderr,
                    pywarnings, waiter, cmdResult, requests, gets, heap >>

\* line 45: the timeout elapses first: result() raises, and the waiter has
\* no handler, so the exception leaves it.
WaitTimeout ==
    /\ pc = "wait"
    /\ op.status = "running"
    /\ waiter' = Raised(TimeoutError)
    /\ pc' = "waiter_raised"
    /\ UNCHANGED << call, callNo, op, result, reads, stdout, stderr,
                    pywarnings, cmdResult, requests, gets, heap >>

\* lines 47-53
CheckError ==
    /\ pc = "check_error"
    /\ IF HasError(op)
       THEN /\ stderr' = stderr \o ErrorLines(VerboseName(call), op)
            /\ reads' = reads \cup { Read("error_code"),
                                     Read("error_message"), Read("name") }
            /\ pc' = "raise"
       ELSE /\ stderr' = stderr
            /\ reads' = reads \cup { Read("error_code") }
            /\ pc' = "check_warnings"
    /\ UNCHANGED << call, callNo, op, result, stdout, pywarnings, waiter,
                    cmdResult, requests, gets, heap >>

\* line 54
Raise ==
    /\ pc = "raise"
    /\ reads' = reads \cup { Read("exception"), Read("error_message") }
    /\ waiter' = Raised(RaisedException(op))
    /\ pc' = "waiter_raised"
    /\ UNCHANGED << call, callNo, op, result, stdout, stderr, pywarnings,
                    cmdResult, requests, gets, heap >>

\* lines 56-59
CheckWarnings ==
    /\ pc = "check_warnings"
    /\ reads' = reads \cup { Read("warnings") }
    /\ stderr' = stderr \o WarningLines(VerboseName(call), op)
    /\ pc' = "return"
    /\ UNCHANGED << call, callNo, op, result, stdout, pywarnings, waiter,
                    cmdResult, requests, gets, heap >>

\* line 61
Return ==
    /\ pc = "return"
    /\ waiter' = Returned(result)
    /\ pc' = "after_wait"
    /\ UNCHANGED << call, callNo, op, result, reads, stdout, stderr,
                    pywarnings, cmdResult, requests, gets, heap >>

\* Faulty variant: the command catches the waiter's exception and carries on.
PropagateCaught ==
    /\ pc = "waiter_raised"
    /\ pc' = "after_wait"
    /\ UNCHANGED << call, callNo, op, result, reads, stdout, stderr,
                    pywarnings, waiter, cmdResult, requests, gets, heap >>

\* No command wraps the waiter call in try/except: the exception leaves the
\* command and, uncaught at module level, ends the process.
Propagate ==
    /\ pc = "waiter_raised"
    /\ cmdResult' = Raised(waiter.exception)
    /\ pc' = "crashed"
    /\ UNCHANGED << call, callNo, op, result, reads, stdout, stderr,
                    pywarnings, waiter, requests, gets, heap >>

\* The statements after the waiter call, up to the return of start, stop and
\* delete (lines 160, 174, 186, 200; nothing in start.py).
Confirm ==
    /\ pc = "after_wait"
    /\ stdout' = stdout \o ConfirmLines(call)
    /\ IF call.cmd = "create"
       THEN /\ pc' = "get"
            /\ cmdResult' = cmdResult
       ELSE /\ pc' = "idle"
            /\ cmdResult' = Returned("None")
    /\ UNCHANGED << call, callNo, op, result, reads, stderr, pywarnings,
                    waiter, requests, gets, heap >>

\* line 161: return instance_client.get(...)
Get ==
    /\ pc = "get"
    /\ gets' = Append(gets, [ call |-> callNo, project |-> call.project_id,
                              zone |-> call.zone,
                              instance |-> call.instance_name ])
    /\ cmdResult' = Returned(call.instance_name)
    /\ pc' = "idle"
    /\ UNCHANGED << call, callNo, op, result, reads, stdout, stderr,
                    pywarnings, waiter, requests, heap >>

Next ==
    \/ Invoke
    \/ SubmitCreate
    \/ SubmitSimple
    \/ ServiceComplete
    \/ WaitReturn
    \/ WaitTimeout
    \/ CheckError
    \/ Raise
    \/ CheckWarnings
    \/ Return
    \/ Propagate
    \/ Confirm
    \/ Get

Spec == Init /\ [][Next]_vars

----------------------------------------------------------------------------
(* create_instance's machine-type rule over many machine_type strings *)

Pieces ==
    << S_zones, S_machineTypes, << "a" >>, << "A" >>, << "LF" >>,
       << "u0663" >>, S_n1_standard_1 >>

RECURSIVE Concat(_)
Concat(ps) == IF ps = << >> THEN << >> ELSE Head(ps) \o Concat(Tail(ps))

MachineTypeInputs ==
    { Concat([ i \in 1..Len(f) |-> Pieces[f[i]] ]) :
        f \in UNION { [ 1..n -> 1..Len(Pieces) ] : n \in 0..MaxPieces } }

ZoneInputs == { << "a" >>, S_us_central1_c }

\* create_instance has been called with machine_type and zone drawn from
\* the input sets and every other keyword at its default.
InitNorm ==
    /\ pc = "entered"
    /\ \E mt \in MachineTypeInputs, z \in ZoneInputs :
         call = [ file |-> "vm_instance_operation.py", cmd |-> "create",
                  project_id |-> "sanguine-line-391106", zone |-> z,
                  instance_name |-> "my-instance",
                  args |-> [ DefaultArgs EXCEPT !.machine_type = mt ] ]
    /\ callNo = 1
    /\ op = NoOperation
    /\ result = "None"
    /\ reads = {}
    /\ stdout = << >>
    /\ stderr = << >>
    /\ pywarnings = << >>
    /\ waiter = NoOutcome
    /\ cmdResult = NoOutcome
    /\ requests = << >>
    /\ gets = << >>
    /\ heap = (DefaultDisksId :> DefaultDisksValue)

NextNorm == SubmitCreate

SpecNorm == InitNorm /\ [][NextNorm]_vars

----------------------------------------------------------------------------
(* Properties *)

\* wait_for_extended_operation has ended in the current call.
WaiterFinished == waiter.status \in { "returned", "raised" }

IsWarningLine(l) == l.kind = "warning"
IsErrorLine(l) == l.kind = "error"
IsConfirmLine(l) == l.kind \in { "created", "started", "stopped", "deleted" }

\* The warning lines on stderr, as (code, message) pairs.
EmittedWarnings ==
    LET ws == SelectSeq(stderr, IsWarningLine)
    IN  [ i \in 1..Len(ws) |->
            [ code |-> ws[i].wcode, message |-> ws[i].message ] ]

\* The requests the current call has submitted.
RequestsOfCall == SelectSeq(requests, LAMBDA r : r.call = callNo)
GetsOfCall == SelectSeq(gets, LAMBDA g : g.call = callNo)

\* C1: a terminal handle with a non-empty error code makes the waiter raise;
\* it never returns a value, with or without a payload or warnings.
C1_ErrorAlwaysRaises ==
    (op.status = "done" /\ op.error_code # 0)
        => /\ waiter.status # "returned"
           /\ waiter.value = "None"
           /\ pc \notin { "check_warnings", "return", "after_wait", "get" }
           /\ (pc \in { "waiter_raised", "crashed" }
                 => waiter.status = "raised")

C1_Witness ==
    /\ waiter.status = "raised"
    /\ op.error_code # 0
    /\ op.result = "payload"
    /\ op.warnings # << >>

\* C2: a terminal handle with an empty error code and n >= 1 warnings: the
\* waiter returns the handle's result payload and stderr carries exactly n
\* warning lines, the warnings' codes and messages in list order.
C2_WarningsReturnAndEmit ==
    (WaiterFinished /\ op.status = "done" /\ op.error_code = 0
       /\ op.warnings # << >>)
        => /\ waiter = Returned(op.result)
           /\ EmittedWarnings = op.warnings

C2_Witness ==
    /\ waiter.status = "returned"
    /\ waiter.value = "payload"
    /\ op.error_code = 0
    /\ Len(op.warnings) = 2
    /\ op.warnings[1] # op.warnings[2]

\* C3 as claimed: whenever the waiter has ended on a terminal handle with
\* warnings, every warning is on stderr, whether the waiter returned or
\* raised.
C3_WarningsEmittedRegardless ==
    (WaiterFinished /\ op.status = "done" /\ op.warnings # << >>)
        => EmittedWarnings = op.warnings

\* C3 as amended: the warnings are emitted exactly when the error code is
\* empty; with a non-empty error code the waiter raises and no warning line
\* is written.
C3_WarningsOnlyWithoutError ==
    (WaiterFinished /\ op.status = "done")
        => EmittedWarnings = IF op.error_code = 0 THEN op.warnings ELSE << >>

C3_Witness ==
    /\ waiter.status = "raised"
    /\ op.error_code # 0
    /\ op.warnings # << >>
    /\ SelectSeq(stderr, IsErrorLine) # << >>
    /\ EmittedWarnings = << >>

\* C4: every attribute of the handle is read on a terminal handle, after the
\* wait returned; a handle still running after the wait means the waiter
\* raised the wait primitive's timeout, wrote nothing to stderr, read nothing
\* and returned nothing.
C4_ReadsOnlyTerminal ==
    /\ \A r \in reads : r.terminal
    /\ (pc \in { "entered", "wait" } => reads = {})
    /\ (pc \notin { "idle", "entered", "wait" } /\ op.status = "running")
         => /\ waiter = Raised(TimeoutError)
            /\ stderr = << >>
            /\ reads = {}
            /\ result = "None"
            /\ cmdResult.status # "returned"

C4_Witness ==
    /\ pc = "crashed"
    /\ op.status = "running"
    /\ waiter = Raised(TimeoutError)
    /\ cmdResult = Raised(TimeoutError)


\* C5 as claimed: in either file, once a command's waiter has returned and
\* the command has gone past the statement after the wait, stdout ends with
\* that command's confirmation line naming the instance; a finished create
\* has fetched the instance once and returned it.
C5_ConfirmationPrinted ==
    (waiter.status = "returned" /\ pc \in { "get", "idle" })
        => /\ stdout # << >>
           /\ IsConfirmLine(stdout[Len(stdout)])
           /\ stdout[Len(stdout)].name = call.instance_name
           /\ (call.cmd = "create" /\ pc = "idle"
                 => /\ Len(GetsOfCall) = 1
                    /\ GetsOfCall[1].instance = call.instance_name
                    /\ cmdResult = Returned(call.instance_name))

\* C6: when the waiter raised (operation error or timeout) the command does
\* not catch it: the call's one request is never resubmitted, no confirmation
\* line is printed, no get is issued, the command does not return, the
\* exception leaving the command is the waiter's, and the crashed process
\* takes no further step.
C6_FailurePropagates ==
    /\ [](waiter.status = "raised"
            => /\ pc \in { "waiter_raised", "crashed" }
               /\ Len(RequestsOfCall) = 1
               /\ SelectSeq(stdout, IsConfirmLine) = << >>
               /\ GetsOfCall = << >>
               /\ cmdResult.status # "returned"
               /\ (pc = "crashed" => cmdResult = Raised(waiter.exception)))
    /\ [][waiter.status = "raised"
            => /\ waiter' = waiter
               /\ requests' = requests
               /\ gets' = gets
               /\ stdout' = stdout
               /\ callNo' = callNo
               /\ pc' = "crashed"]_vars

C6_Witness ==
    /\ pc = "crashed"
    /\ call.cmd = "create"
    /\ op.status = "done"
    /\ cmdResult = Raised(waiter.exception)
    /\ waiter.exception.type = "GoogleAPICallError"

\* The strings re.match accepts for the pattern
\* ^zones/[a-z\d\-]+/machineTypes/[a-z\d\-]+$ : "zones/", a non-empty run of
\* class characters, "/machineTypes/", another such run, then the end of the
\* string or one final line feed.
FullyQualified(s) ==
    LET n == Len(s)
        z == Len(S_zones)
        m == Len(S_machineTypes)
    IN  /\ n >= z + m + 2
        /\ SubSeq(s, 1, z) = S_zones
        /\ \E a \in 1..(n - z - m - 1) :
             /\ SubSeq(s, z + a + 1, z + a + m) = S_machineTypes
             /\ \A k \in (z + 1)..(z + a) : InClass(s[k])
             /\ \/ \A k \in (z + a + m + 1)..n : InClass(s[k])
                \/ /\ n >= z + a + m + 2
                   /\ s[n] = "LF"
                   /\ \A k \in (z + a + m + 1)..(n - 1) : InClass(s[k])

\* The machine type of the instance in the current call's insert request.
SubmittedMachineType == RequestsOfCall[1].instance_resource[1].machine_type

\* C7: the submitted machine type is machine_type itself when machine_type
\* matches the fully-qualified pattern, whatever the zone argument, and
\* "zones/" + zone + "/machineTypes/" + machine_type otherwise.
C7_MachineTypeNormalized ==
    (pc = "wait" /\ call.cmd = "create")
        => LET mt == call.args.machine_type
           IN  /\ Len(RequestsOfCall) = 1
               /\ SubmittedMachineType =
                    IF FullyQualified(mt)
                    THEN mt
                    ELSE S_zones \o call.zone \o S_machineTypes \o mt
               /\ (mt = S_n1_standard_1 /\ call.zone = S_us_central1_c
                     => SubmittedMachineType =
                          S_zones \o S_us_central1_c \o S_machineTypes
                            \o S_n1_standard_1)

\* A fully-qualified machine_type naming zone "a", submitted unchanged under
\* the zone argument "us-central1-c".
C7_Witness ==
    /\ pc = "wait"
    /\ call.zone = S_us_central1_c
    /\ call.args.machine_type =
         S_zones \o << "a" >> \o S_machineTypes \o S_n1_standard_1
    /\ SubmittedMachineType = call.args.machine_type

\* The scheduling object of the instance in the current call's request.
SubmittedScheduling == RequestsOfCall[1].instance_resource[1].scheduling

CreateSubmitted ==
    /\ call.cmd = "create"
    /\ pc \notin { "idle", "entered" } \/ (pc = "idle" /\ cmdResult # NoOutcome)

InsertRequests == SelectSeq(requests, LAMBDA r : r.kind = "insert")

\* C9 as claimed: no two submitted instance specs hold the same disks list
\* object.
C9_NoSharedDisksObject ==
    \A i, j \in 1..Len(InsertRequests) :
        i < j => InsertRequests[i].instance_resource[1].disks
                   # InsertRequests[j].instance_resource[1].disks

\* C10: on a terminal handle with a non-empty error code the error line
\* (label, code, message) and the operation-id line are on stderr before the
\* waiter raises, and what it raises is the handle's exception when it has
\* one, otherwise a RuntimeError carrying the handle's error message.
C10_DiagnosticThenRaise ==
    /\ (pc = "raise" => waiter.status = "none")
    /\ ((op.status = "done" /\ op.error_code # 0
           /\ (pc = "raise" \/ WaiterFinished))
          => /\ \E i \in 1..Len(stderr) :
                  /\ stderr[i].kind = "error"
                  /\ stderr[i].label = VerboseName(call)
                  /\ stderr[i].code = op.error_code
                  /\ stderr[i].message = op.error_message
             /\ \E i \in 1..Len(stderr) :
                  /\ stderr[i].kind = "operation_id"
                  /\ stderr[i].id = op.name)
    /\ ((op.status = "done" /\ op.error_code # 0 /\ WaiterFinished)
          => /\ waiter.status = "raised"
             /\ waiter.exception =
                  IF op.exception.type # "None"
                  THEN op.exception
                  ELSE [ type |-> "RuntimeError",
                         message |-> op.error_message ])

C10_Witness ==
    /\ waiter.status = "raised"
    /\ op.error_code # 0
    /\ op.exception = NoException
    /\ op.error_message = "quota exceeded"
    /\ waiter.exception.type = "RuntimeError"

====
